---------------------------- MODULE Spec2Model ----------------------------
(***************************************************************************)
(* The buffer cache of src/src/filesys/cache.c as a state machine.         *)
(*                                                                         *)
(* Threads are Pintos kernel threads, preempted at any point.  One action  *)
(* is one C statement that touches shared memory (or one blocking call);   *)
(* statements that touch only locals are folded into the action before     *)
(* them.  The monitor functions cache_*_acquire / cache_*_release run      *)
(* under rw_lock and are one action each; a cond_wait loop is the guard of *)
(* the action.  block_read and block_write are atomic per call.  Every     *)
(* read-modify-write of a flag (|=, -=) is one action, which is what a     *)
(* uniprocessor build that emits one instruction for it does.              *)
(***************************************************************************)
EXTENDS Integers, Sequences, FiniteSets, TLC

\* ----------------------------------------------------------------- bounds
\* Largest cache capacity explored (the program's MAX_CACHE_SIZE is drawn
\* from 1..MaxCacheSize in Init).
MaxCacheSize == 2
\* Number of sectors of fs_device: block_size(fs_device).
DeviceSize == 2
\* Number of client threads calling cache_read / cache_write / cache_flush.
NumClients == 2
\* Read-ahead threads that can be alive at the same time.
MaxLoaders == 2
\* Total number of client calls in one run.
MaxOps == 3
\* Number of passes of the write-back thread in one run.
MaxSweeps == 1
\* try_count of cacheEvict saturates here (only try_count >= 1 is tested).
MaxTry == 2

\* ------------------------------------------------------ program constants
B_NOFLAG == 0
B_RECENT == 1
B_DIRTY == 2
B_ALL == 3
\* block_sector_t and the flag are 32-bit words.  A word is written here as
\* the two's complement reading of its 32 bits (0xFFFFFFFF is -1), which
\* keeps every word within the integers the model checker can hold; the
\* unsigned comparisons of the code are written out in BeyondDevice and
\* block_write_ok.
MaxInt32 == 2147483647
MinInt32 == 0 - MaxInt32 - 1
\* (block_sector_t) -1, the sector of an empty entry
NoSector == 0 - 1

\* ------------------------------------------------------------ thread ids
WbThread == 0
Clients == 1..NumClients
Loaders == (NumClients + 1)..(NumClients + MaxLoaders)
Threads == {WbThread} \cup Clients \cup Loaders
NoThread == 0 - 1

Entries == 0..(MaxCacheSize - 1)
Sectors == 0..(DeviceSize - 1)
\* Sector contents: 0 is the device's initial content, call number k writes k.
NoValue == 0 - 1

VARIABLES
  MAX_CACHE_SIZE,  \* the capacity this run was built with
  sec,             \* cache[i].sec
  flag,            \* cache[i].flag
  data,            \* cache[i].data
  reader_count,    \* cache[i].reader_count
  has_writer,      \* cache[i].has_writer
  entry_lock,      \* holder of cache[i].entry_lock, or NoThread
  eviction_lock,   \* holder of eviction_lock, or NoThread
  clock_cache,     \* index of the entry clock_cache points to
  device,          \* fs_device: sector -> content
  pc,              \* each thread's position
  loc,             \* each thread's locals
  sema,            \* sema1 of each client's cacheTryGetIdx frame
  nops,            \* client calls started so far
  sweeps,          \* write-back passes started so far
  panic,           \* the kernel has panicked (ASSERT, access past the device)
  rhold,           \* history: threads holding read admission on each entry
  whold,           \* history: threads holding write admission on each entry
  committed,       \* history: value of the last returned write per sector
  fsnap            \* history: committed, as it was when a cache_flush began

vars == <<MAX_CACHE_SIZE, sec, flag, data, reader_count, has_writer,
          entry_lock, eviction_lock, clock_cache, device, pc, loc, sema,
          nops, sweeps, panic, rhold, whold, committed, fsnap>>

cacheVars == <<sec, flag, data>>
rwVars == <<reader_count, has_writer, rhold, whold>>
lockVars == <<entry_lock, eviction_lock>>
runVars == <<MAX_CACHE_SIZE, nops, sweeps>>
histVars == <<committed, fsnap>>

\* ------------------------------------------------------------ flag words
\* f & b # 0 for a one-bit mask b (\div rounds down, % is never negative)
HasBit(f, b) == (f \div b) % 2 = 1
\* f | B_RECENT and f | B_ALL on a 32-bit word
OrRecent(f) == IF HasBit(f, B_RECENT) THEN f ELSE f + 1
OrAll(f) == f - (f % 4) + B_ALL
\* A clear that leaves the word as it is (the subtraction forgotten).
Sub32_forgotten(f, b) == f

\* f - b and f + b on a 32-bit word, wrapping around
Sub32(f, b) == IF f >= MinInt32 + b THEN f - b
               ELSE ((f + MaxInt32) - b) + MaxInt32 + 2
Add32(f, b) == IF f <= MaxInt32 - b THEN f + b
               ELSE ((f - MaxInt32) + b) - MaxInt32 - 2

\* ---------------------------------------------------------------- locals
\* op: the public call ("read", "write", "flush"), "load" for a read-ahead
\*     thread, "wb" for the write-back thread, "none" when idle;
\* sec: the sector asked for; val: the value written or read; i: loop index;
\* item: the entry found or evicted; evicted, try_count, standard: as in the
\* code; par: the client whose sema1 a read-ahead thread signals;
\* exp: history, the value a read must return (NoValue: unconstrained).
NoLocals ==
  [op |-> "none", sec |-> 0, val |-> 0, i |-> 0, item |-> 0,
   evicted |-> FALSE, try_count |-> 0, standard |-> 0, par |-> 0,
   exp |-> NoValue]

Wflag(t) == CASE loc[t].op = "write" -> "W_WRITE"
              [] loc[t].op = "read" -> "W_READ"
              [] OTHER -> "W_NO"

At(t, l) == ~panic /\ pc[t] = l
Goto(t, l) == pc' = [pc EXCEPT ![t] = l]
SetLoc(t, r) == loc' = [loc EXCEPT ![t] = r]

\* Another client's cache_write to sector s is in progress.
WriteInFlight(c, s) ==
  \E d \in Clients \ {c} :
    pc[d] # "idle" /\ loc[d].op = "write" /\ loc[d].sec = s

\* ------------------------------------------------------------ cache_init
Init ==
  /\ MAX_CACHE_SIZE \in 1..MaxCacheSize
  /\ sec = [e \in Entries |-> NoSector]
  /\ flag = [e \in Entries |-> B_NOFLAG]
  /\ data = [e \in Entries |-> 0]
  /\ reader_count = [e \in Entries |-> 0]
  /\ has_writer = [e \in Entries |-> FALSE]
  /\ entry_lock = [e \in Entries |-> NoThread]
  /\ eviction_lock = NoThread
  /\ clock_cache = 0
  /\ device = [s \in Sectors |-> 0]
  /\ pc = [t \in Threads |->
             IF t = WbThread THEN "wb_sleep"
             ELSE IF t \in Clients THEN "idle" ELSE "free"]
  /\ loc = [t \in Threads |-> NoLocals]
  /\ sema = [c \in Clients |-> 0]
  /\ nops = 0
  /\ sweeps = 0
  /\ panic = FALSE
  /\ rhold = [e \in Entries |-> {}]
  /\ whold = [e \in Entries |-> {}]
  /\ committed = [s \in Sectors |-> NoValue]
  /\ fsnap = [c \in Clients |-> [s \in Sectors |-> NoValue]]

\* ------------------------------------------- cache synch (rw_lock monitor)
\* A writer's wait loop that forgets the readers (drops reader_count > 0
\* from the condition of line 60).
cache_write_acquire_ignores_readers(e) == ~has_writer[e]

cache_write_acquire_ok(e) == ~has_writer[e] /\ reader_count[e] = 0

cache_write_acquire(t, e) ==
  /\ cache_write_acquire_ok(e)
  /\ has_writer' = [has_writer EXCEPT ![e] = TRUE]
  /\ whold' = [whold EXCEPT ![e] = @ \cup {t}]
  /\ UNCHANGED <<reader_count, rhold>>

cache_read_acquire_ok(e) == ~has_writer[e]

cache_read_acquire(t, e) ==
  /\ cache_read_acquire_ok(e)
  /\ reader_count' = [reader_count EXCEPT ![e] = @ + 1]
  /\ rhold' = [rhold EXCEPT ![e] = @ \cup {t}]
  /\ UNCHANGED <<has_writer, whold>>

\* ASSERT (c->has_writer): a failed ASSERT panics the kernel.
cache_write_release(t, e) ==
  IF has_writer[e]
  THEN /\ has_writer' = [has_writer EXCEPT ![e] = FALSE]
       /\ whold' = [whold EXCEPT ![e] = @ \ {t}]
       /\ UNCHANGED <<reader_count, rhold, panic>>
  ELSE panic' = TRUE /\ UNCHANGED rwVars

\* A cache_read_release that returns without giving the admission back.
cache_read_release_forgotten(t, e) == UNCHANGED <<rwVars, panic>>

\* ASSERT (c->reader_count > 0): a failed ASSERT panics the kernel.
cache_read_release(t, e) ==
  IF reader_count[e] > 0
  THEN /\ reader_count' = [reader_count EXCEPT ![e] = @ - 1]
       /\ rhold' = [rhold EXCEPT ![e] = @ \ {t}]
       /\ UNCHANGED <<has_writer, whold, panic>>
  ELSE panic' = TRUE /\ UNCHANGED rwVars

\* ------------------------------------------------------------ the device
\* block_write (fs_device, s, d): past the end of the device the kernel
\* panics and nothing is written.
block_write_ok(s) == 0 <= s /\ s < DeviceSize

block_write(s, d) ==
  IF block_write_ok(s)
  THEN device' = [device EXCEPT ![s] = d] /\ panic' = panic
  ELSE device' = device /\ panic' = TRUE

\* ------------------------------------------------- the public operations
\* A client thread calls cache_read (s, to), cache_write (s, from) or
\* cache_flush ().  Call number k writes the value k.  The clients run the
\* same code, so they are numbered in the order of their first calls:
\* client c makes its first call when c - 1 calls have been made.
Call(c) ==
  /\ At(c, "idle")
  /\ nops < MaxOps
  /\ nops >= c - 1
  /\ nops' = nops + 1
  /\ \/ \E s \in Sectors :
          /\ loc' = [loc EXCEPT ![c] =
                       [NoLocals EXCEPT !.op = "read", !.sec = s,
                                        !.exp = committed[s]]]
          /\ Goto(c, "get_scan")
          /\ UNCHANGED histVars
     \/ \E s \in Sectors :
          /\ loc' = [t \in Threads |->
                       IF t = c
                       THEN [NoLocals EXCEPT !.op = "write", !.sec = s,
                                             !.val = nops + 1]
                       ELSE IF loc[t].op = "read" /\ loc[t].sec = s
                       THEN [loc[t] EXCEPT !.exp = NoValue]
                       ELSE loc[t]]
          /\ committed' = [committed EXCEPT ![s] = NoValue]
          /\ fsnap' = [d \in Clients |-> [fsnap[d] EXCEPT ![s] = NoValue]]
          /\ Goto(c, "get_scan")
     \/ /\ loc' = [loc EXCEPT ![c] = [NoLocals EXCEPT !.op = "flush"]]
        /\ fsnap' = [fsnap EXCEPT ![c] = committed]
        /\ Goto(c, "fl_chk")
        /\ UNCHANGED committed
  /\ UNCHANGED <<cacheVars, rwVars, lockVars, clock_cache, device, sema,
                 MAX_CACHE_SIZE, sweeps, panic>>

\* cache_flush returns to its caller.
Return(c) ==
  /\ At(c, "ret")
  /\ Goto(c, "idle")
  /\ SetLoc(c, NoLocals)
  /\ fsnap' = [fsnap EXCEPT ![c] = [s \in Sectors |-> NoValue]]
  /\ UNCHANGED <<cacheVars, rwVars, lockVars, clock_cache, device, sema,
                 runVars, panic, committed>>

\* ----------------------------------------------------------- cacheGetIdx
\* line 178: the unlocked test of cache[i].sec, and the loop's end.
get_scan(t) ==
  /\ At(t, "get_scan")
  /\ LET i == loc[t].i IN
       IF sec[i] = loc[t].sec
       THEN Goto(t, "get_lock") /\ UNCHANGED loc
       ELSE IF i + 1 < MAX_CACHE_SIZE
       THEN SetLoc(t, [loc[t] EXCEPT !.i = i + 1]) /\ UNCHANGED pc
       ELSE SetLoc(t, [loc[t] EXCEPT !.i = 0]) /\ Goto(t, "try_evict")
  /\ UNCHANGED <<cacheVars, rwVars, lockVars, clock_cache, device, sema,
                 runVars, panic, histVars>>

\* A lock_acquire that does not wait for the holder.
lock_acquire_barging(i) == TRUE

\* lock_acquire (&cache[i].entry_lock) returns when nobody holds the lock
lock_acquire_ok(i) == entry_lock[i] = NoThread

\* A lookup that trusts the unlocked test of line 178 (no re-check).
SameSector_unchecked(i, s) == TRUE

\* The re-check of line 180, made with entry_lock held.
SameSector(i, s) == sec[i] = s

\* lines 179-194: lock_acquire (&cache[i].entry_lock), the re-check, and on
\* a mismatch lock_release and return NULL.
get_lock(t) ==
  /\ At(t, "get_lock")
  /\ LET i == loc[t].i IN
       /\ lock_acquire_ok(i)
       /\ IF SameSector(i, loc[t].sec)
          THEN /\ entry_lock' = [entry_lock EXCEPT ![i] = t]
               /\ SetLoc(t, [loc[t] EXCEPT !.item = i, !.i = 0])
               /\ Goto(t, CASE Wflag(t) = "W_WRITE" -> "get_wacq"
                             [] Wflag(t) = "W_READ" -> "get_racq"
                             [] OTHER -> "get_recent")
          ELSE /\ UNCHANGED entry_lock
               /\ SetLoc(t, [loc[t] EXCEPT !.i = 0])
               /\ Goto(t, "try_evict")
  /\ UNCHANGED <<cacheVars, rwVars, eviction_lock, clock_cache, device,
                 sema, runVars, panic, histVars>>

\* line 182: cache_write_acquire (cache + i)
get_wacq(t) ==
  /\ At(t, "get_wacq")
  /\ cache_write_acquire(t, loc[t].item)
  /\ Goto(t, "get_dirty")
  /\ UNCHANGED <<cacheVars, lockVars, clock_cache, device, loc, sema,
                 runVars, panic, histVars>>

\* line 183: cache[i].flag |= B_ALL
get_dirty(t) ==
  /\ At(t, "get_dirty")
  /\ flag' = [flag EXCEPT ![loc[t].item] = OrAll(@)]
  /\ Goto(t, "get_recent")
  /\ UNCHANGED <<sec, data, rwVars, lockVars, clock_cache, device, loc,
                 sema, runVars, panic, histVars>>

\* line 186: cache_read_acquire (cache + i)
get_racq(t) ==
  /\ At(t, "get_racq")
  /\ cache_read_acquire(t, loc[t].item)
  /\ Goto(t, "get_recent")
  /\ UNCHANGED <<cacheVars, lockVars, clock_cache, device, loc, sema,
                 runVars, panic, histVars>>

\* lines 188-189: cache[i].flag |= B_RECENT; return cache + i
get_recent(t) ==
  /\ At(t, "get_recent")
  /\ flag' = [flag EXCEPT ![loc[t].item] = OrRecent(@)]
  /\ Goto(t, IF t \in Clients THEN "hit_unlock" ELSE "ld_unlock")
  /\ UNCHANGED <<sec, data, rwVars, lockVars, clock_cache, device, loc,
                 sema, runVars, panic, histVars>>

\* ------------------------------------------------------------ cacheEvict
\* cacheClockStep: the entry after clock_cache, cache after cache_end.
cacheClockStep(c) == IF c = MAX_CACHE_SIZE - 1 THEN 0 ELSE c + 1

\* The test of line 237 made with the mask B_DIRTY in place of B_ALL.
IsFree_dirty_only(f) == ~HasBit(f, B_DIRTY)

\* line 237: !(clock_cache->flag & B_ALL), the (0, 0) test
IsFree(f) == f % 4 = 0

\* line 243: the lap test guarding the (0, 1) eviction and the demotion
LapReached(try) == try >= 1

\* lines 252-253: if (standard == clock_cache) try_count++
NextTry(t, c) ==
  IF loc[t].standard = c /\ loc[t].try_count < MaxTry
  THEN loc[t].try_count + 1 ELSE loc[t].try_count

\* A try-acquire that succeeds whoever holds the lock.
lock_try_acquire_unchecked == TRUE

\* lock_try_acquire (&eviction_lock) succeeds when nobody holds the lock
lock_try_acquire_ok == eviction_lock = NoThread

\* lines 297-298 / 331-334, and 231-232: lock_try_acquire (&eviction_lock);
\* on failure the lookup is retried, on success cacheEvict starts.
try_evict(t) ==
  /\ At(t, "try_evict")
  /\ IF lock_try_acquire_ok
     THEN /\ eviction_lock' = t
          /\ SetLoc(t, [loc[t] EXCEPT !.evicted = (t \in Clients),
                                      !.try_count = 0,
                                      !.standard = clock_cache])
          /\ Goto(t, "ev_step")
     ELSE /\ UNCHANGED <<eviction_lock, loc>>
          /\ Goto(t, "get_scan")
  /\ UNCHANGED <<cacheVars, rwVars, entry_lock, clock_cache, device, sema,
                 runVars, panic, histVars>>

\* lines 235-240: cacheClockStep and the (0, 0) test; on the first lap the
\* rest of the iteration (252-253) reads no shared memory and is done here.
ev_step(t) ==
  /\ At(t, "ev_step")
  /\ LET c == cacheClockStep(clock_cache) IN
       /\ clock_cache' = c
       /\ IF IsFree(flag[c])
          THEN Goto(t, "ef_lock") /\ SetLoc(t, [loc[t] EXCEPT !.item = c])
          ELSE IF LapReached(loc[t].try_count)
          THEN Goto(t, "ev_lap") /\ UNCHANGED loc
          ELSE /\ SetLoc(t, [loc[t] EXCEPT !.try_count = NextTry(t, c)])
               /\ UNCHANGED pc
  /\ UNCHANGED <<cacheVars, rwVars, lockVars, device, sema, runVars, panic,
                 histVars>>

\* lines 243-253 on a later lap: evict a (0, 1) entry, else clear B_RECENT.
ev_lap(t) ==
  /\ At(t, "ev_lap")
  /\ LET c == clock_cache
         f == flag[c] IN
       IF f = B_DIRTY
       THEN /\ Goto(t, "ef_lock")
            /\ SetLoc(t, [loc[t] EXCEPT !.item = c])
            /\ UNCHANGED flag
       ELSE /\ flag' = [flag EXCEPT ![c] =
                          IF HasBit(f, B_RECENT) THEN Sub32(f, B_RECENT)
                          ELSE f]
            /\ SetLoc(t, [loc[t] EXCEPT !.try_count = NextTry(t, c)])
            /\ Goto(t, "ev_step")
  /\ UNCHANGED <<sec, data, rwVars, lockVars, clock_cache, device, sema,
                 runVars, panic, histVars>>

\* ------------------------------------------------------- cacheEntryFlush
\* line 210: lock_acquire (&e->entry_lock)
ef_lock(t) ==
  /\ At(t, "ef_lock")
  /\ lock_acquire_ok(loc[t].item)
  /\ entry_lock' = [entry_lock EXCEPT ![loc[t].item] = t]
  /\ Goto(t, "ef_wacq")
  /\ UNCHANGED <<cacheVars, rwVars, eviction_lock, clock_cache, device, loc,
                 sema, runVars, panic, histVars>>

\* line 212: cache_write_acquire (e)
ef_wacq(t) ==
  /\ At(t, "ef_wacq")
  /\ cache_write_acquire(t, loc[t].item)
  /\ Goto(t, "ef_wb")
  /\ UNCHANGED <<cacheVars, lockVars, clock_cache, device, loc, sema,
                 runVars, panic, histVars>>

\* lines 215-219: the two ASSERTs, and the write-back of a dirty entry
ef_wb(t) ==
  /\ At(t, "ef_wb")
  /\ LET e == loc[t].item IN
       IF reader_count[e] = 0 /\ has_writer[e]
       THEN IF HasBit(flag[e], B_DIRTY)
            THEN block_write(sec[e], data[e])
            ELSE UNCHANGED <<device, panic>>
       ELSE panic' = TRUE /\ UNCHANGED device
  /\ Goto(t, "ef_reset")
  /\ UNCHANGED <<cacheVars, rwVars, lockVars, clock_cache, loc, sema,
                 runVars, histVars>>

\* lines 220-221: e->sec = -1; e->flag = B_RECENT
ef_reset(t) ==
  /\ At(t, "ef_reset")
  /\ sec' = [sec EXCEPT ![loc[t].item] = NoSector]
  /\ flag' = [flag EXCEPT ![loc[t].item] = B_RECENT]
  /\ Goto(t, "ef_wrel")
  /\ UNCHANGED <<data, rwVars, lockVars, clock_cache, device, loc, sema,
                 runVars, panic, histVars>>

\* lines 223-225: cache_write_release (e); entry_lock is kept
\* (get_entry_lock is true at both call sites), and cacheEvict returns.
ef_wrel(t) ==
  /\ At(t, "ef_wrel")
  /\ cache_write_release(t, loc[t].item)
  /\ Goto(t, IF t \in Clients THEN "in_sec" ELSE "ld_sec")
  /\ UNCHANGED <<cacheVars, lockVars, clock_cache, device, loc, sema,
                 runVars, histVars>>

\* ------------------------------------------ cacheTryGetIdx (the miss path)
\* lines 372-373: a hit returns with the admission held and entry_lock freed
hit_unlock(c) ==
  /\ At(c, "hit_unlock")
  /\ entry_lock' = [entry_lock EXCEPT ![loc[c].item] = NoThread]
  /\ Goto(c, "copy")
  /\ UNCHANGED <<cacheVars, rwVars, eviction_lock, clock_cache, device, loc,
                 sema, runVars, panic, histVars>>

\* line 339: item->sec = sec
in_sec(c) ==
  /\ At(c, "in_sec")
  /\ sec' = [sec EXCEPT ![loc[c].item] = loc[c].sec]
  /\ Goto(c, "in_read")
  /\ UNCHANGED <<flag, data, rwVars, lockVars, clock_cache, device, loc,
                 sema, runVars, panic, histVars>>

\* line 340: block_read (fs_device, sec, item->data)
in_read(c) ==
  /\ At(c, "in_read")
  /\ data' = [data EXCEPT ![loc[c].item] = device[loc[c].sec]]
  /\ Goto(c, "in_recent")
  /\ UNCHANGED <<sec, flag, rwVars, lockVars, clock_cache, device, loc,
                 sema, runVars, panic, histVars>>

\* line 342: item->flag |= B_RECENT
in_recent(c) ==
  /\ At(c, "in_recent")
  /\ flag' = [flag EXCEPT ![loc[c].item] = OrRecent(@)]
  /\ Goto(c, "in_unlock")
  /\ UNCHANGED <<sec, data, rwVars, lockVars, clock_cache, device, loc,
                 sema, runVars, panic, histVars>>

\* lines 344-345: lock_release (&item->entry_lock);
\* lock_release (&eviction_lock)
in_unlock(c) ==
  /\ At(c, "in_unlock")
  /\ entry_lock' = [entry_lock EXCEPT ![loc[c].item] = NoThread]
  /\ eviction_lock' = NoThread
  /\ Goto(c, "ms_acq")
  /\ UNCHANGED <<cacheVars, rwVars, clock_cache, device, loc, sema,
                 runVars, panic, histVars>>

\* lines 350-355: the admission, taken with no lock held
ms_acq(c) ==
  /\ At(c, "ms_acq")
  /\ IF Wflag(c) = "W_WRITE"
     THEN cache_write_acquire(c, loc[c].item) /\ Goto(c, "ms_dirty")
     ELSE cache_read_acquire(c, loc[c].item) /\ Goto(c, "ms_spawn")
  /\ UNCHANGED <<cacheVars, lockVars, clock_cache, device, loc, sema,
                 runVars, panic, histVars>>

\* line 352: item->flag |= B_ALL
ms_dirty(c) ==
  /\ At(c, "ms_dirty")
  /\ flag' = [flag EXCEPT ![loc[c].item] = OrAll(@)]
  /\ Goto(c, "ms_spawn")
  /\ UNCHANGED <<sec, data, rwVars, lockVars, clock_cache, device, loc,
                 sema, runVars, panic, histVars>>

\* The read-ahead thread a new thread_create gets: the first unused one.
FreeLoader == CHOOSE l \in Loaders :
                pc[l] = "free" /\ \A k \in Loaders : pc[k] = "free" => l <= k

\* lines 360-367: sema_init (&sema1, 0); aheadWrap = {sec + 1, &sema1};
\* thread_create ("ahead_reader", ..., cacheLoadThread, aheadWrap)
ms_spawn(c) ==
  /\ At(c, "ms_spawn")
  /\ \E l \in Loaders : pc[l] = "free"
  /\ sema' = [sema EXCEPT ![c] = 0]
  /\ pc' = [pc EXCEPT ![c] = "ms_wait", ![FreeLoader] = "ld_start"]
  /\ loc' = [loc EXCEPT ![FreeLoader] =
               [NoLocals EXCEPT !.op = "load",
                                !.sec = Add32(loc[c].sec, 1),
                                !.par = c]]
  /\ UNCHANGED <<cacheVars, rwVars, lockVars, clock_cache, device, runVars,
                 panic, histVars>>

\* line 368: sema_down (&sema1)
ms_wait(c) ==
  /\ At(c, "ms_wait")
  /\ sema[c] > 0
  /\ sema' = [sema EXCEPT ![c] = @ - 1]
  /\ Goto(c, "copy")
  /\ UNCHANGED <<cacheVars, rwVars, lockVars, clock_cache, device, loc,
                 runVars, panic, histVars>>

\* ------------------------------------------------ cache_read, cache_write
\* lines 403 and 422: the memcpy between the caller's buffer and the entry
copy(c) ==
  /\ At(c, "copy")
  /\ IF loc[c].op = "write"
     THEN /\ data' = [data EXCEPT ![loc[c].item] = loc[c].val]
          /\ UNCHANGED loc
     ELSE /\ SetLoc(c, [loc[c] EXCEPT !.val = data[loc[c].item]])
          /\ UNCHANGED data
  /\ Goto(c, "rel")
  /\ UNCHANGED <<sec, flag, rwVars, lockVars, clock_cache, device, sema,
                 runVars, panic, histVars>>

\* lines 404 and 423: cache_write_release (buffer), cache_read_release
\* (buffer), and the return.  History: a write that returns with no other
\* write to its sector in progress is the sector's last write.
rel(c) ==
  /\ At(c, "rel")
  /\ IF loc[c].op = "write"
     THEN /\ cache_write_release(c, loc[c].item)
          /\ committed' = [committed EXCEPT ![loc[c].sec] =
                             IF WriteInFlight(c, loc[c].sec) THEN NoValue
                             ELSE loc[c].val]
     ELSE /\ cache_read_release(c, loc[c].item)
          /\ UNCHANGED committed
  /\ Goto(c, "idle")
  /\ SetLoc(c, NoLocals)
  /\ UNCHANGED <<cacheVars, lockVars, clock_cache, device, sema, runVars,
                 fsnap>>

\* ------------------------------------------------------- cacheLoadThread
\* The bound test of line 289 written with > in place of >=.
BeyondDevice_strict(s) == s < 0 \/ s > DeviceSize

\* line 289: aheadWrap.sec >= block_size (fs_device)
BeyondDevice(s) == s < 0 \/ s >= DeviceSize

\* sema_up (aheadWrap.sema)
sema_up(t) == sema' = [sema EXCEPT ![loc[t].par] = @ + 1]

\* thread_exit ()
Exit(t) ==
  /\ pc' = [pc EXCEPT ![t] = "free"]
  /\ SetLoc(t, NoLocals)

\* lines 289-296: past the device the thread signals and exits; otherwise
\* it starts its lookup with W_NO.
ld_start(t) ==
  /\ At(t, "ld_start")
  /\ IF BeyondDevice(loc[t].sec)
     THEN sema_up(t) /\ Exit(t)
     ELSE Goto(t, "get_scan") /\ UNCHANGED <<loc, sema>>
  /\ UNCHANGED <<cacheVars, rwVars, lockVars, clock_cache, device, runVars,
                 panic, histVars>>

\* line 315: the sector is cached already: lock_release (&ahead->entry_lock)
ld_unlock(t) ==
  /\ At(t, "ld_unlock")
  /\ entry_lock' = [entry_lock EXCEPT ![loc[t].item] = NoThread]
  /\ Goto(t, "ld_up")
  /\ UNCHANGED <<cacheVars, rwVars, eviction_lock, clock_cache, device, loc,
                 sema, runVars, panic, histVars>>

\* lines 317-321: sema_up (aheadWrap.sema); thread_exit ()
ld_up(t) ==
  /\ At(t, "ld_up")
  /\ sema_up(t)
  /\ Exit(t)
  /\ UNCHANGED <<cacheVars, rwVars, lockVars, clock_cache, device, runVars,
                 panic, histVars>>

\* line 301: ahead->sec = aheadWrap.sec
ld_sec(t) ==
  /\ At(t, "ld_sec")
  /\ sec' = [sec EXCEPT ![loc[t].item] = loc[t].sec]
  /\ Goto(t, "ld_claim")
  /\ UNCHANGED <<flag, data, rwVars, lockVars, clock_cache, device, loc,
                 sema, runVars, panic, histVars>>

\* line 304: sema_up (aheadWrap.sema), before the device is read
ld_claim(t) ==
  /\ At(t, "ld_claim")
  /\ sema_up(t)
  /\ Goto(t, "ld_read")
  /\ UNCHANGED <<cacheVars, rwVars, lockVars, clock_cache, device, loc,
                 runVars, panic, histVars>>

\* line 306: block_read (fs_device, aheadWrap.sec, ahead->data)
ld_read(t) ==
  /\ At(t, "ld_read")
  /\ data' = [data EXCEPT ![loc[t].item] = device[loc[t].sec]]
  /\ Goto(t, "ld_recent")
  /\ UNCHANGED <<sec, flag, rwVars, lockVars, clock_cache, device, loc,
                 sema, runVars, panic, histVars>>

\* line 307: ahead->flag |= B_RECENT
ld_recent(t) ==
  /\ At(t, "ld_recent")
  /\ flag' = [flag EXCEPT ![loc[t].item] = OrRecent(@)]
  /\ Goto(t, "ld_rel")
  /\ UNCHANGED <<sec, data, rwVars, lockVars, clock_cache, device, loc,
                 sema, runVars, panic, histVars>>

\* lines 309-312: both locks released; thread_exit ()
ld_rel(t) ==
  /\ At(t, "ld_rel")
  /\ entry_lock' = [entry_lock EXCEPT ![loc[t].item] = NoThread]
  /\ eviction_lock' = NoThread
  /\ Exit(t)
  /\ UNCHANGED <<cacheVars, rwVars, clock_cache, device, sema, runVars,
                 panic, histVars>>

\* ----------------------------------------------------------- cache_flush
\* The loop's step: the next entry, or the return after the last one.
FlushNext(c) ==
  IF loc[c].i + 1 < MAX_CACHE_SIZE
  THEN SetLoc(c, [loc[c] EXCEPT !.i = @ + 1]) /\ Goto(c, "fl_chk")
  ELSE SetLoc(c, [loc[c] EXCEPT !.i = 0]) /\ Goto(c, "ret")

\* line 439: cache[i].flag & B_DIRTY
fl_chk(c) ==
  /\ At(c, "fl_chk")
  /\ IF HasBit(flag[loc[c].i], B_DIRTY)
     THEN Goto(c, "fl_wr") /\ UNCHANGED loc
     ELSE FlushNext(c)
  /\ UNCHANGED <<cacheVars, rwVars, lockVars, clock_cache, device, sema,
                 runVars, panic, histVars>>

\* line 440: block_write (fs_device, cache[i].sec, cache[i].data)
fl_wr(c) ==
  /\ At(c, "fl_wr")
  /\ block_write(sec[loc[c].i], data[loc[c].i])
  /\ Goto(c, "fl_clr")
  /\ UNCHANGED <<cacheVars, rwVars, lockVars, clock_cache, loc, sema,
                 runVars, histVars>>

\* line 441: cache[i].flag -= B_DIRTY
fl_clr(c) ==
  /\ At(c, "fl_clr")
  /\ flag' = [flag EXCEPT ![loc[c].i] = Sub32(@, B_DIRTY)]
  /\ FlushNext(c)
  /\ UNCHANGED <<sec, data, rwVars, lockVars, clock_cache, device, sema,
                 runVars, panic, histVars>>

\* -------------------------------------------------- cacheWriteBackThread
\* line 115: timer_sleep (TIMER_FREQ) is over and a pass starts
wb_sleep ==
  /\ At(WbThread, "wb_sleep")
  /\ sweeps < MaxSweeps
  /\ sweeps' = sweeps + 1
  /\ SetLoc(WbThread, [NoLocals EXCEPT !.op = "wb"])
  /\ Goto(WbThread, "wb_acq")
  /\ UNCHANGED <<cacheVars, rwVars, lockVars, clock_cache, device, sema,
                 MAX_CACHE_SIZE, nops, panic, histVars>>

\* line 118: cache_read_acquire (cache + i)
wb_acq ==
  /\ At(WbThread, "wb_acq")
  /\ cache_read_acquire(WbThread, loc[WbThread].i)
  /\ Goto(WbThread, "wb_chk")
  /\ UNCHANGED <<cacheVars, lockVars, clock_cache, device, loc, sema,
                 runVars, panic, histVars>>

\* line 119: cache[i].flag & B_DIRTY
wb_chk ==
  /\ At(WbThread, "wb_chk")
  /\ Goto(WbThread, IF HasBit(flag[loc[WbThread].i], B_DIRTY)
                    THEN "wb_wr" ELSE "wb_rel")
  /\ UNCHANGED <<cacheVars, rwVars, lockVars, clock_cache, device, loc,
                 sema, runVars, panic, histVars>>

\* line 120: block_write (fs_device, cache[i].sec, cache[i].data)
wb_wr ==
  /\ At(WbThread, "wb_wr")
  /\ block_write(sec[loc[WbThread].i], data[loc[WbThread].i])
  /\ Goto(WbThread, "wb_clr")
  /\ UNCHANGED <<cacheVars, rwVars, lockVars, clock_cache, loc, sema,
                 runVars, histVars>>

\* line 121: cache[i].flag -= B_DIRTY
wb_clr ==
  /\ At(WbThread, "wb_clr")
  /\ flag' = [flag EXCEPT ![loc[WbThread].i] = Sub32(@, B_DIRTY)]
  /\ Goto(WbThread, "wb_rel")
  /\ UNCHANGED <<sec, data, rwVars, lockVars, clock_cache, device, loc,
                 sema, runVars, panic, histVars>>

\* line 123: cache_read_release (cache + i), and the loop's step
wb_rel ==
  /\ At(WbThread, "wb_rel")
  /\ cache_read_release(WbThread, loc[WbThread].i)
  /\ IF loc[WbThread].i + 1 < MAX_CACHE_SIZE
     THEN /\ SetLoc(WbThread, [loc[WbThread] EXCEPT !.i = @ + 1])
          /\ Goto(WbThread, "wb_acq")
     ELSE /\ SetLoc(WbThread, NoLocals)
          /\ Goto(WbThread, "wb_sleep")
  /\ UNCHANGED <<cacheVars, lockVars, clock_cache, device, sema, runVars,
                 histVars>>

\* ------------------------------------------------------ the specification
Workers == Clients \cup Loaders

Next ==
  \/ \E c \in Clients : Call(c)
  \/ \E c \in Clients : Return(c)
  \/ \E t \in Workers : get_scan(t)
  \/ \E t \in Workers : get_lock(t)
  \/ \E t \in Workers : get_wacq(t)
  \/ \E t \in Workers : get_dirty(t)
  \/ \E t \in Workers : get_racq(t)
  \/ \E t \in Workers : get_recent(t)
  \/ \E t \in Workers : try_evict(t)
  \/ \E t \in Workers : ev_step(t)
  \/ \E t \in Workers : ev_lap(t)
  \/ \E t \in Workers : ef_lock(t)
  \/ \E t \in Workers : ef_wacq(t)
  \/ \E t \in Workers : ef_wb(t)
  \/ \E t \in Workers : ef_reset(t)
  \/ \E t \in Workers : ef_wrel(t)
  \/ \E c \in Clients : hit_unlock(c)
  \/ \E c \in Clients : in_sec(c)
  \/ \E c \in Clients : in_read(c)
  \/ \E c \in Clients : in_recent(c)
  \/ \E c \in Clients : in_unlock(c)
  \/ \E c \in Clients : ms_acq(c)
  \/ \E c \in Clients : ms_dirty(c)
  \/ \E c \in Clients : ms_spawn(c)
  \/ \E c \in Clients : ms_wait(c)
  \/ \E c \in Clients : copy(c)
  \/ \E c \in Clients : rel(c)
  \/ \E l \in Loaders : ld_start(l)
  \/ \E l \in Loaders : ld_unlock(l)
  \/ \E l \in Loaders : ld_up(l)
  \/ \E l \in Loaders : ld_sec(l)
  \/ \E l \in Loaders : ld_claim(l)
  \/ \E l \in Loaders : ld_read(l)
  \/ \E l \in Loaders : ld_recent(l)
  \/ \E l \in Loaders : ld_rel(l)
  \/ \E c \in Clients : fl_chk(c)
  \/ \E c \in Clients : fl_wr(c)
  \/ \E c \in Clients : fl_clr(c)
  \/ wb_sleep
  \/ wb_acq
  \/ wb_chk
  \/ wb_wr
  \/ wb_clr
  \/ wb_rel

Spec == Init /\ [][Next]_vars

\* ---------------------------------------------------- cacheEvict, alone
\* One run of cacheEvict with no other thread running: a client whose
\* lookup has missed is about to try the eviction permit, and every entry
\* of the cache holds a sector written since it was loaded, flag B_ALL.
\* (The other client wrote the sectors after this client's lookup passed
\* them.)  The run ends when cacheEvict returns.
InitEvict ==
  /\ MAX_CACHE_SIZE \in 1..MaxCacheSize
  /\ clock_cache \in 0..(MAX_CACHE_SIZE - 1)
  /\ sec \in [Entries -> Sectors \cup {NoSector}]
  /\ \A e \in Entries : (sec[e] = NoSector) <=> (e >= MAX_CACHE_SIZE)
  /\ \A e1, e2 \in Entries :
       (e1 # e2 /\ sec[e1] # NoSector) => sec[e1] # sec[e2]
  /\ flag = [e \in Entries |-> IF e < MAX_CACHE_SIZE THEN B_ALL ELSE B_NOFLAG]
  /\ data \in [Entries -> 0..MaxOps]
  /\ \A e \in Entries : (data[e] = 0) <=> (e >= MAX_CACHE_SIZE)
  /\ reader_count = [e \in Entries |-> 0]
  /\ has_writer = [e \in Entries |-> FALSE]
  /\ entry_lock = [e \in Entries |-> NoThread]
  /\ eviction_lock = NoThread
  /\ device = [s \in Sectors |-> 0]
  /\ pc = [t \in Threads |->
             IF t = WbThread THEN "wb_sleep"
             ELSE IF t = 1 THEN "try_evict"
             ELSE IF t \in Clients THEN "idle" ELSE "free"]
  /\ \E s \in Sectors :
       loc = [t \in Threads |->
                IF t = 1 THEN [NoLocals EXCEPT !.op = "read", !.sec = s]
                ELSE NoLocals]
  /\ sema = [c \in Clients |-> 0]
  /\ nops = MaxOps
  /\ sweeps = MaxSweeps
  /\ panic = FALSE
  /\ rhold = [e \in Entries |-> {}]
  /\ whold = [e \in Entries |-> {}]
  /\ committed = [s \in Sectors |-> NoValue]
  /\ fsnap = [c \in Clients |-> [s \in Sectors |-> NoValue]]

NextEvict ==
  \/ try_evict(1)
  \/ ev_step(1)
  \/ ev_lap(1)
  \/ ef_lock(1)
  \/ ef_wacq(1)
  \/ ef_wb(1)
  \/ ef_reset(1)
  \/ ef_wrel(1)

SpecEvict == InitEvict /\ [][NextEvict]_vars

\* --------------------------------------------------- cache_flush, alone
\* One client calls cache_flush again and again with no other thread
\* running.  The cache starts in a state it can be in between calls: an
\* entry below the capacity is empty (flag 0 after cache_init, B_RECENT
\* after cacheEntryFlush) or holds a sector of its own with any flag of the
\* two bits; a clean entry has the device's content, a dirty one a written
\* value.
InitFlush ==
  /\ MAX_CACHE_SIZE \in 1..MaxCacheSize
  /\ clock_cache \in 0..(MAX_CACHE_SIZE - 1)
  /\ sec \in [Entries -> Sectors \cup {NoSector}]
  /\ \A e \in Entries : e >= MAX_CACHE_SIZE => sec[e] = NoSector
  /\ \A e1, e2 \in Entries :
       (e1 # e2 /\ sec[e1] # NoSector) => sec[e1] # sec[e2]
  /\ flag \in [Entries -> B_NOFLAG..B_ALL]
  /\ \A e \in Entries :
       /\ e >= MAX_CACHE_SIZE => flag[e] = B_NOFLAG
       /\ sec[e] = NoSector => flag[e] \in {B_NOFLAG, B_RECENT}
  /\ data \in [Entries -> 0..MaxOps]
  /\ \A e \in Entries : (data[e] # 0) <=> HasBit(flag[e], B_DIRTY)
  /\ reader_count = [e \in Entries |-> 0]
  /\ has_writer = [e \in Entries |-> FALSE]
  /\ entry_lock = [e \in Entries |-> NoThread]
  /\ eviction_lock = NoThread
  /\ device = [s \in Sectors |-> 0]
  /\ pc = [t \in Threads |->
             IF t = WbThread THEN "wb_sleep"
             ELSE IF t \in Clients THEN "idle" ELSE "free"]
  /\ loc = [t \in Threads |-> NoLocals]
  /\ sema = [c \in Clients |-> 0]
  /\ nops = 0
  /\ sweeps = MaxSweeps
  /\ panic = FALSE
  /\ rhold = [e \in Entries |-> {}]
  /\ whold = [e \in Entries |-> {}]
  /\ committed = [s \in Sectors |-> NoValue]
  /\ fsnap = [c \in Clients |-> [s \in Sectors |-> NoValue]]

NextFlush ==
  \/ Call(1) /\ loc'[1].op = "flush"
  \/ fl_chk(1)
  \/ fl_wr(1)
  \/ fl_clr(1)
  \/ Return(1)

SpecFlush == InitFlush /\ [][NextFlush]_vars

\* ------------------------------------------------------------- the claims
\* The entry a thread is about to take admission on, while it waits.
WaitsForAdmission(t, e) ==
  \/ pc[t] \in {"get_wacq", "get_racq", "ms_acq", "ef_wacq"} /\ loc[t].item = e
  \/ pc[t] = "wb_acq" /\ loc[t].i = e

\* The entry's sector is set and its data is not read from the device yet.
Loading(e) ==
  \E t \in Workers :
    loc[t].item = e /\ pc[t] \in {"in_read", "ld_claim", "ld_read"}

Dirty(e) == HasBit(flag[e], B_DIRTY)

\* C1: whenever cache_read or cache_write copies an entry's data, the
\* entry's sector is the sector the caller asked for.
C1_CopiesRequestedSector ==
  \A c \in Clients : pc[c] = "copy" => sec[loc[c].item] = loc[c].sec

\* C2: a cache_read of sector S that starts after cache_write (S, P) has
\* returned, with no other write to S in progress or started since, copies
\* P to its caller.
C2_WriteVisibility ==
  \A c \in Clients :
    (pc[c] = "rel" /\ loc[c].op = "read" /\ loc[c].exp # NoValue)
      => loc[c].val = loc[c].exp

\* C3: on every entry has_writer and reader_count > 0 never hold together,
\* at most one thread holds write admission, and reader_count is never
\* negative.
C3_AdmissionExclusion ==
  \A e \in Entries :
    /\ ~(has_writer[e] /\ reader_count[e] > 0)
    /\ reader_count[e] >= 0
    /\ Cardinality(whold[e]) <= 1
    /\ (whold[e] # {} => has_writer[e])
    /\ (rhold[e] # {} => reader_count[e] > 0)

\* C3's case: a thread waits for admission on an entry another thread holds
\* write admission on.
C3_Witness ==
  \E e \in Entries : \E t \in Threads :
    has_writer[e] /\ t \notin whold[e] /\ WaitsForAdmission(t, e)

\* C4, first half: when cacheEntryFlush resets an entry's sector the entry
\* has no reader and the evicting thread is its only writer.
C4_ResetUnderOwnAdmission ==
  \A t \in Workers :
    pc[t] \in {"ef_wb", "ef_reset"} =>
      /\ reader_count[loc[t].item] = 0
      /\ has_writer[loc[t].item]
      /\ whold[loc[t].item] = {t}

\* C4: no eviction under use: the sector is reset under the evicting
\* thread's own write admission with no reader, and no client that holds
\* read or write admission on an entry sees the entry's sector change.
C4_NoEvictionUnderUse ==
  [][/\ C4_ResetUnderOwnAdmission
     /\ \A e \in Entries : \A c \in Clients :
          (sec'[e] # sec[e] /\ c \in (rhold[e] \cup whold[e]))
            => pc'[c] # pc[c]]_vars

\* C5: no two cache entries hold the same non-empty sector.
C5_SectorUniqueness ==
  \A e1, e2 \in Entries :
    (e1 # e2 /\ sec[e1] # NoSector) => sec[e1] # sec[e2]

\* C6: an entry that is resident, not dirty, not held by a writer and not
\* being loaded has the data the device has for its sector.
C6_CleanEntryMatchesDevice ==
  \A e \in Entries :
    (sec[e] \in Sectors /\ ~Dirty(e) /\ ~has_writer[e] /\ ~Loading(e))
      => data[e] = device[sec[e]]

\* C7: when a cache_flush returns that was called after cache_write (S, P)
\* had returned, with no other write to S, the device holds P for S and no
\* entry holding S is dirty.
C7_FlushWritesBack ==
  \A c \in Clients : \A s \in Sectors :
    (pc[c] = "ret" /\ loc[c].op = "flush" /\ fsnap[c][s] # NoValue)
      => /\ device[s] = fsnap[c][s]
         /\ \A e \in Entries : sec[e] = s => ~Dirty(e)

\* C8: no state is reached in which a read-ahead thread waits in
\* cacheEntryFlush for write admission on an entry whose admission is held
\* by the caller that waits for this thread's claim signal.
C8_NoClaimDeadlock ==
  ~ \E l \in Loaders : \E c \in Clients :
      /\ pc[l] = "ef_wacq" /\ loc[l].par = c
      /\ pc[c] = "ms_wait" /\ sema[c] = 0
      /\ c \in (rhold[loc[l].item] \cup whold[loc[l].item])

\* C9: when cacheEntryFlush is about to reset the sector S of its victim,
\* the device holds the last value written to S.
C9_EvictionKeepsWrites ==
  \A t \in Workers :
    (pc[t] = "ef_reset" /\ sec[loc[t].item] \in Sectors
       /\ committed[sec[loc[t].item]] # NoValue)
      => device[sec[loc[t].item]] = committed[sec[loc[t].item]]

\* C10: a read-ahead thread started for a sector >= block_size (fs_device)
\* signals its semaphore and exits in one step that takes no lock and
\* changes no entry, the cursor or the device.
C10_ReadAheadBounds ==
  [][\A l \in Loaders :
       (pc[l] = "ld_start" /\ loc[l].sec >= DeviceSize /\ pc'[l] # pc[l])
         => /\ pc'[l] = "free"
            /\ sema'[loc[l].par] = sema[loc[l].par] + 1
            /\ UNCHANGED <<cacheVars, rwVars, lockVars, clock_cache,
                           device>>]_vars

\* C10's case: a caller that loaded the device's last sector has been
\* signalled by its read-ahead thread, which has exited.
C10_Witness ==
  \E c \in Clients :
    /\ pc[c] = "ms_wait" /\ sema[c] = 1
    /\ loc[c].sec + 1 >= DeviceSize
    /\ \A l \in Loaders : loc[l].par # c

\* C11: when cacheEvict starts with every entry flagged (recent, dirty) and
\* no other thread runs, it selects its victim within two full laps of the
\* cursor (the lap counter is at most 1 at the selection), and when it
\* returns exactly one entry has been evicted.
C11_ClockProgress ==
  /\ \A t \in Workers : pc[t] = "ef_lock" => loc[t].try_count <= 1
  /\ \A t \in Workers :
       pc[t] = "in_sec" =>
         Cardinality({e \in 0..(MAX_CACHE_SIZE - 1) : sec[e] = NoSector}) = 1

\* C12: a cache_flush that follows a cache_flush with nothing in between
\* issues no device write and leaves every entry's flag, sector and data,
\* and the device, unchanged.
C12_IdempotentFlush ==
  [][nops >= 2 =>
       /\ UNCHANGED <<cacheVars, device, panic>>
       /\ \A c \in Clients : pc'[c] # "fl_wr"]_vars

\* C12's case: the second cache_flush has returned after the first one
\* wrote a dirty entry back.
C12_Witness ==
  /\ nops = 2 /\ pc[1] = "ret"
  /\ \E e \in Entries : sec[e] # NoSector /\ data[e] # 0
                        /\ device[sec[e]] = data[e]

\* A thread between a successful lock_try_acquire (&eviction_lock) and the
\* matching lock_release.
InPermit(t) ==
  pc[t] \in {"ev_step", "ev_lap", "ef_lock", "ef_wacq", "ef_wb", "ef_reset",
             "ef_wrel", "in_sec", "in_read", "in_recent", "in_unlock",
             "ld_sec", "ld_claim", "ld_read", "ld_recent", "ld_rel"}

\* C13, the state part: at most one thread is inside the permit, and it is
\* the holder of eviction_lock.
C13_OneHolder ==
  \A t \in Workers :
    InPermit(t) =>
      /\ eviction_lock = t
      /\ \A u \in Workers : InPermit(u) => u = t

\* C13: at most one thread is between a successful lock_try_acquire of
\* eviction_lock and its release; the clock cursor changes only in a step
\* of the thread holding the permit; an entry's sector changes from empty
\* to a real sector only in a step of the thread that holds the permit and
\* the entry's entry_lock.
C13_EvictionPermit ==
  [][/\ C13_OneHolder
     /\ clock_cache' # clock_cache =>
          /\ eviction_lock \in Workers
          /\ pc[eviction_lock] = "ev_step"
          /\ \A u \in Threads \ {eviction_lock} :
               pc'[u] = pc[u] /\ loc'[u] = loc[u]
     /\ \A e \in Entries :
          (sec[e] = NoSector /\ sec'[e] # NoSector) =>
            /\ eviction_lock \in Workers
            /\ entry_lock[e] = eviction_lock
            /\ pc'[eviction_lock] # pc[eviction_lock]
            /\ \A u \in Threads \ {eviction_lock} : pc'[u] = pc[u]]_vars

\* C13's case: a thread holds the permit while another one tries to take it.
C13_Witness ==
  \E t, u \in Workers :
    t # u /\ InPermit(t) /\ pc[t] = "in_sec" /\ pc[u] = "try_evict"

\* C14: at the step in which cacheEvict selects its victim, the victim's
\* recent and dirty bits are (0, 0), or they are (0, 1) and the lap counter
\* is at least 1: an entry seen with its recent bit set is not selected at
\* that visit, and a (0, 1) entry is not selected during the first lap.
C14_VictimSelection ==
  [][\A t \in Workers :
       (pc[t] \in {"ev_step", "ev_lap"} /\ pc'[t] = "ef_lock") =>
         LET v == loc'[t].item IN
           /\ v = clock_cache'
           /\ ~HasBit(flag[v], B_RECENT)
           /\ HasBit(flag[v], B_DIRTY) => loc[t].try_count >= 1]_vars

\* C14's case: a (0, 1) entry has been selected on a later lap.
C14_Witness ==
  \E t \in Workers :
    /\ pc[t] = "ef_lock" /\ loc[t].try_count >= 1
    /\ flag[loc[t].item] = B_DIRTY

\* C15: every iteration of cacheEvict that ends without selecting the
\* visited entry leaves that entry's recent bit clear and its dirty bit as
\* it was, on the first lap as on later laps.
C15_SecondChanceDemotion ==
  [][\A t \in Workers :
       (pc[t] \in {"ev_step", "ev_lap"} /\ pc'[t] = "ev_step"
          /\ eviction_lock = t) =>
         /\ ~HasBit(flag'[clock_cache'], B_RECENT)
         /\ HasBit(flag'[clock_cache'], B_DIRTY)
              <=> HasBit(flag[clock_cache'], B_DIRTY)]_vars

\* The thread holds no entry_lock and no admission.
HoldsNothing(t) ==
  \A e \in Entries : entry_lock[e] # t /\ t \notin (rhold[e] \cup whold[e])

C17_LockedWhileLoading ==
  \A l \in Loaders :
    /\ pc[l] \in {"ld_sec", "ld_claim", "ld_read", "ld_recent", "ld_rel"} =>
         entry_lock[loc[l].item] = l
    /\ pc[l] \in {"ld_claim", "ld_read"} =>
         /\ sec[loc[l].item] = loc[l].sec
         /\ \A t \in Workers \ {l} :
              ~(/\ pc[t] \in {"get_wacq", "get_dirty", "get_racq",
                              "get_recent", "hit_unlock", "ld_unlock"}
                /\ loc[t].item = loc[l].item)

\* C17: on its eviction path the read-ahead thread signals the caller's
\* semaphore after it has set the entry's sector and before it reads the
\* device, and it holds the entry's entry_lock from the eviction until the
\* device read is done, so no lookup returns the entry before its data is
\* loaded.
C17_ClaimOrdering ==
  [][/\ C17_LockedWhileLoading
     /\ \A l \in Loaders :
          /\ (pc[l] = "ld_claim" /\ pc'[l] # pc[l]) =>
               /\ sec[loc[l].item] = loc[l].sec
               /\ sema'[loc[l].par] = sema[loc[l].par] + 1
               /\ data' = data
               /\ pc'[l] = "ld_read"
          /\ (pc[l] = "ld_read" /\ pc'[l] # pc[l]) =>
               /\ sema' = sema
               /\ data'[loc[l].item] = device[loc[l].sec]
               /\ entry_lock'[loc[l].item] = l]_vars

\* C17's case: a lookup for the prefetched sector waits for the entry's
\* entry_lock while the read-ahead thread has signalled and not yet read.
C17_Witness ==
  \E l \in Loaders : \E t \in Workers \ {l} :
    /\ pc[l] = "ld_read"
    /\ pc[t] = "get_lock" /\ loc[t].i = loc[l].item /\ loc[t].sec = loc[l].sec

\* C18: every entry's flag is one of the four values 0..3, and the clears
\* flag -= B_DIRTY and flag -= B_RECENT are applied only to a flag that has
\* the bit set.
C18_FlagWellFormed ==
  /\ \A e \in Entries : flag[e] \in B_NOFLAG..B_ALL
  /\ \A c \in Clients : pc[c] = "fl_clr" => Dirty(loc[c].i)
  /\ pc[WbThread] = "wb_clr" => Dirty(loc[WbThread].i)

\* Every client call has returned, every read-ahead thread has exited and
\* the write-back thread sleeps.
Quiescent ==
  /\ \A c \in Clients : pc[c] = "idle"
  /\ \A l \in Loaders : pc[l] = "free"
  /\ pc[WbThread] = "wb_sleep"

\* C19: a release finds the admission it gives back (reader_count > 0 at
\* cache_read_release, has_writer at cache_write_release, held by the
\* releasing thread), and when every thread is out of the cache every entry
\* has reader_count 0 and no writer and every lock is free.
C19_AcquireReleaseBalance ==
  /\ \A c \in Clients :
       pc[c] = "rel" =>
         IF loc[c].op = "write"
         THEN has_writer[loc[c].item] /\ c \in whold[loc[c].item]
         ELSE reader_count[loc[c].item] > 0 /\ c \in rhold[loc[c].item]
  /\ \A t \in Workers :
       pc[t] = "ef_wrel" =>
         has_writer[loc[t].item] /\ t \in whold[loc[t].item]
  /\ pc[WbThread] = "wb_rel" =>
       /\ reader_count[loc[WbThread].i] > 0
       /\ WbThread \in rhold[loc[WbThread].i]
  /\ Quiescent =>
       /\ \A e \in Entries :
            /\ reader_count[e] = 0 /\ ~has_writer[e]
            /\ rhold[e] = {} /\ whold[e] = {}
            /\ entry_lock[e] = NoThread
       /\ eviction_lock = NoThread

\* C19's case: every thread is out of the cache after the sweeps and all
\* the calls of the run, with a sector resident.
C19_Witness ==
  /\ Quiescent /\ nops = MaxOps /\ sweeps = MaxSweeps
  /\ \E e \in Entries : sec[e] # NoSector

\* C20: an empty entry never has its dirty bit set, and no block_write of
\* cache_flush, the write-back thread or cacheEntryFlush is issued for the
\* empty sector.
C20_NoEmptyWriteBack ==
  /\ ~panic
  /\ \A e \in Entries : sec[e] = NoSector => ~Dirty(e)
  /\ \A c \in Clients : pc[c] = "fl_wr" => sec[loc[c].i] # NoSector
  /\ pc[WbThread] = "wb_wr" => sec[loc[WbThread].i] # NoSector
  /\ \A t \in Workers :
       (pc[t] = "ef_wb" /\ Dirty(loc[t].item)) => sec[loc[t].item] # NoSector

============================================================================
